---- MODULE Spec2Model ----
(***************************************************************************)
(* A model of bytes_parser's BytesParser (src/src/parser.rs): a cursor     *)
(* over a borrowed byte slice with endianness-aware scalar decoding, UTF-8 *)
(* text decoding, character decoding and cursor movement.                  *)
(*                                                                         *)
(* Representation choices:                                                 *)
(*  - a byte is an integer in 0..255; the buffer is a sequence of bytes;   *)
(*    buffer[i+1] is the source's buffer[i];                               *)
(*  - a decoded scalar is its bit pattern written as base-256 digits, most *)
(*    significant digit first (u16 0x1234 is <<18, 52>>), because values   *)
(*    of 32 bits and more do not fit TLC's integers; IntOf gives the       *)
(*    number a pattern denotes where that number fits;                     *)
(*  - usize / isize are WordBits wide (two's complement), scaled down from *)
(*    the 64 bits of the usual target;                                     *)
(*  - a String is the sequence of its UTF-8 bytes; a char is its code      *)
(*    point.                                                               *)
(***************************************************************************)
EXTENDS Integers, Sequences, FiniteSets, TLC

\* ------------------------------------------------------------------ bounds

\* Longest buffer drawn exhaustively over ByteSet.
MaxLen == 3

\* Width of the machine word (usize, isize) in bits.
WordBits == 16

\* How far past length the cursor is followed (a cap on an unbounded counter).
MaxBeyond == 2

\* ------------------------------------------------------------ machine words

RECURSIVE Pow2(_)
Pow2(n) == IF n = 0 THEN 1 ELSE 2 * Pow2(n - 1)

WordMod == Pow2(WordBits)

USIZE_MAX == WordMod - 1

ISIZE_MAX == Pow2(WordBits - 1) - 1

ISIZE_MIN == 0 - Pow2(WordBits - 1)

\* `x as isize` for a usize x: the same bits read as two's complement.
AsIsize(x) == IF x > ISIZE_MAX THEN x - WordMod ELSE x

\* Wrapping usize / isize arithmetic, as a build without overflow checks does.
WrapUsize(x) == x % WordMod

WrapIsize(x) == ((x - ISIZE_MIN) % WordMod) + ISIZE_MIN

\* --------------------------------------------------------------- endianness

BE == "BE"

LE == "LE"

ParsingEndian == {BE, LE}

ParsingEndianDefault == BE

\* --------------------------------------------------------------- sequences

Reverse(s) == [i \in 1..Len(s) |-> s[Len(s) + 1 - i]]

\* The source's buffer[start..end] (0-based, end exclusive).
Slice(buf, start, end) == SubSeq(buf, start + 1, end)

RECURSIVE SeqsUpTo(_, _)
SeqsUpTo(S, n) ==
    IF n = 0 THEN {<<>>}
    ELSE LET shorter == SeqsUpTo(S, n - 1)
         IN  shorter \cup {Append(s, b) : s \in {t \in shorter : Len(t) = n - 1}, b \in S}

\* ------------------------------------------------------------- scalar types

ScalarTypes ==
    {"i8", "u8", "i16", "u16", "i32", "u32", "i64", "u64", "i128", "u128", "f32", "f64"}

\* mem::size_of::<T>()
size_of(ty) ==
    CASE ty \in {"i8", "u8"} -> 1
      [] ty \in {"i16", "u16"} -> 2
      [] ty \in {"i32", "u32", "f32"} -> 4
      [] ty \in {"i64", "u64", "f64"} -> 8
      [] ty \in {"i128", "u128"} -> 16

SignedTypes == {"i8", "i16", "i32", "i64", "i128"}

\* <T>::from_be_bytes: the first byte is the most significant digit.
from_be_bytes(slice) == slice

\* A from_le_bytes that reads the bytes in big-endian order.
from_le_bytes_unreversed(slice) == slice

\* <T>::from_le_bytes: the first byte is the least significant digit.
from_le_bytes(slice) == Reverse(slice)

\* The number a bit pattern of an integer type denotes (two's complement for
\* the signed types). Defined where the number fits 31 bits.
RECURSIVE Magnitude(_)
Magnitude(bits) ==
    IF Len(bits) = 0 THEN 0
    ELSE 256 * Magnitude(SubSeq(bits, 1, Len(bits) - 1)) + bits[Len(bits)]

IntOf(ty, bits) ==
    IF ty \in SignedTypes /\ bits[1] >= 128
    THEN LET half == Pow2(8 * Len(bits) - 2)
         IN  (Magnitude([bits EXCEPT ![1] = bits[1] - 128]) - half) - half
    ELSE Magnitude(bits)

\* The encoders a caller pairs with the decoders: <T>::to_be_bytes and
\* <T>::to_le_bytes of a bit pattern, and the two's complement pattern, `n`
\* bytes wide, of an integer.
to_be_bytes(bits) == bits

to_le_bytes(bits) == Reverse(bits)

encode(en, bits) == IF en = BE THEN to_be_bytes(bits) ELSE to_le_bytes(bits)

RECURSIVE BitsOf(_, _)
BitsOf(v, n) ==
    IF n = 0 THEN <<>> ELSE Append(BitsOf(v \div 256, n - 1), v % 256)

\* ------------------------------------------------------------------- UTF-8

IsCont(b) == 128 <= b /\ b <= 191

\* Width of the well-formed UTF-8 sequence that starts at s[i], 0 if none does
\* (core::str::from_utf8's validation: no overlong forms, no surrogates,
\* nothing above U+10FFFF, no truncated sequence).
Utf8SeqWidth(s, i) ==
    LET n == Len(s)
        b1 == s[i]
        has(k) == i + k <= n
        cont(k) == IsCont(s[i + k])
        in(k, lo, hi) == lo <= s[i + k] /\ s[i + k] <= hi
    IN  CASE b1 < 128 -> 1
          [] 194 <= b1 /\ b1 <= 223 ->
                IF has(1) /\ cont(1) THEN 2 ELSE 0
          [] b1 = 224 ->
                IF has(2) /\ in(1, 160, 191) /\ cont(2) THEN 3 ELSE 0
          [] (225 <= b1 /\ b1 <= 236) \/ b1 \in {238, 239} ->
                IF has(2) /\ cont(1) /\ cont(2) THEN 3 ELSE 0
          [] b1 = 237 ->
                IF has(2) /\ in(1, 128, 159) /\ cont(2) THEN 3 ELSE 0
          [] b1 = 240 ->
                IF has(3) /\ in(1, 144, 191) /\ cont(2) /\ cont(3) THEN 4 ELSE 0
          [] 241 <= b1 /\ b1 <= 243 ->
                IF has(3) /\ cont(1) /\ cont(2) /\ cont(3) THEN 4 ELSE 0
          [] b1 = 244 ->
                IF has(3) /\ in(1, 128, 143) /\ cont(2) /\ cont(3) THEN 4 ELSE 0
          [] OTHER -> 0

\* Utf8Error::valid_up_to: the length of the longest well-formed prefix made
\* of whole sequences, scanning from 0-based offset `from`.
RECURSIVE Utf8ValidUpTo(_, _)
Utf8ValidUpTo(s, from) ==
    IF from >= Len(s) THEN Len(s)
    ELSE LET w == Utf8SeqWidth(s, from + 1)
         IN  IF w = 0 THEN from ELSE Utf8ValidUpTo(s, from + w)

\* str::from_utf8(slice).is_ok()
from_utf8_ok(slice) == Utf8ValidUpTo(slice, 0) = Len(slice)

\* --------------------------------------------------------------------- char

\* A validity check that lets the surrogates through.
char_from_u32_ok_surrogates(bits) == bits[1] = 0 /\ Magnitude(bits) <= 1114111

\* char::from_u32(v).is_some() for the u32 whose bit pattern is `bits`: a
\* Unicode scalar value, at most 0x10FFFF and no surrogate (0xD800..0xDFFF).
char_from_u32_ok(bits) ==
    /\ bits[1] = 0
    /\ LET v == Magnitude(bits)
       IN  v <= 1114111 /\ ~(55296 <= v /\ v <= 57343)

\* The char char::from_u32 returns: its code point.
char_from_u32(bits) == Magnitude(bits)

\* ------------------------------------------------------------------ inputs

\* Bytes the exhaustive buffers are made of: NUL (ASCII), 0xC3 (lead byte of a
\* two-byte sequence, negative as i8) and 0xA9 (a continuation byte).
ByteSet == {0, 195, 169}

\* tests::parse_signed_scalars_using_big_endian's input; its first 31 bytes
\* are tests::parse_unsigned_scalars_using_big_endian's.
TestScalarsBE ==
    <<18,
      18, 52,
      18, 52, 86, 120,
      18, 52, 86, 120, 154, 188, 222, 240,
      18, 52, 86, 120, 154, 188, 222, 240, 18, 52, 86, 120, 154, 188, 222, 240,
      255, 127, 255, 255,
      127, 239, 255, 255, 255, 255, 255, 255>>

\* tests::parse_signed_scalars_using_little_endian's input.
TestScalarsLE ==
    <<18,
      52, 18,
      120, 86, 52, 18,
      240, 222, 188, 154, 120, 86, 52, 18,
      240, 222, 188, 154, 120, 86, 52, 18, 240, 222, 188, 154, 120, 86, 52, 18,
      255, 255, 127, 255,
      255, 255, 255, 255, 255, 255, 239, 127>>

\* "Forza Napoli Sempre" in UTF-8.
ForzaNapoliSempre ==
    <<70, 111, 114, 122, 97, 32, 78, 97, 112, 111, 108, 105, 32, 83, 101, 109, 112, 114, 101>>

\* tests::parse_string's input: a u16 length prefix, then the text.
TestString == <<0, 19>> \o ForzaNapoliSempre

TestStrLen == 19

\* tests::parse_char's input: U+1F980 big-endian, then little-endian.
TestChar == <<0, 1, 249, 128, 128, 249, 1, 0>>

\* u32 patterns that are no char: a surrogate, a value above U+10FFFF, and
\* one with the top bit set.
NoCharBuffers == {<<0, 0, 216, 0>>, <<0, 17, 0, 0>>, <<255, 255, 255, 255>>}

\* Non-finite f32 patterns: a NaN big-endian, then -infinity little-endian.
FloatSpecials == <<127, 192, 0, 0, 0, 0, 128, 255>>

Buffers ==
    SeqsUpTo(ByteSet, MaxLen)
        \cup {TestScalarsBE, TestScalarsLE, TestString, TestChar, FloatSpecials}
        \cup NoCharBuffers

\* Arguments of move_forward, move_backward and move_at: the small ones, and
\* the usize values whose isize reading is negative.
Amounts == (0..(MaxLen + 1)) \cup {ISIZE_MAX + 1, USIZE_MAX - 1, USIZE_MAX}

\* Arguments of parse_str_utf8.
StrSizes == (0..(MaxLen + 1)) \cup {TestStrLen, USIZE_MAX}

\* ------------------------------------------------------------------- state

VARIABLES
    buffer,   \* the borrowed bytes
    length,   \* BytesParser::length
    cursor,   \* BytesParser::cursor
    endian,   \* BytesParser::endian
    last,     \* the last call: what was called, on what state, what it returned
    count,    \* scalar and character decodes that returned Ok, in a counted run
    pass,     \* the first pass of decodes over the buffer, and its replay
    twin      \* a second parser over the same bytes

vars == <<buffer, length, cursor, endian, last, count, pass, twin>>

\* ----------------------------------------------------------------- results

\* A call's outcome. tag: "Ok", "Err" or "Panic"; err: the BytesParserError
\* variant; name, a, b, c: the variant's payload; val: the Ok value.
Ret(tag, err, name, a, b, c, val) ==
    [tag |-> tag, err |-> err, name |-> name, a |-> a, b |-> b, c |-> c, val |-> val]

Ok(val) == Ret("Ok", "", "", 0, 0, 0, val)

Panic == Ret("Panic", "", "", 0, 0, 0, <<>>)

NotEnoughBytesForTypeError(name) ==
    Ret("Err", "NotEnoughBytesForTypeError", name, 0, 0, 0, <<>>)

NotEnoughBytesForStringError(size) ==
    Ret("Err", "NotEnoughBytesForStringError", "", size, 0, 0, <<>>)

CursorOutOfBoundError(to, len, at) ==
    Ret("Err", "CursorOutOfBoundError", "", to, len, at, <<>>)

\* The Utf8Error is kept as its valid_up_to.
StringParseError(valid_up_to) ==
    Ret("Err", "StringParseError", "", valid_up_to, 0, 0, <<>>)

InvalidU32ForCharError == Ret("Err", "InvalidU32ForCharError", "", 0, 0, 0, <<>>)

\* What a call leaves: the cursor and the returned value.
Out(cur, ret) == [cursor |-> cur, ret |-> ret]

\* The record of a call: op and its arguments (ty, arg, to), the cursor and
\* endian it was made on, and what it returned.
Call(op, ty, arg, to, ret) ==
    [op |-> op, ty |-> ty, arg |-> arg, to |-> to,
     pos |-> cursor, endian |-> endian, ret |-> ret]

NoCall ==
    [op |-> "from", ty |-> "", arg |-> 0, to |-> ParsingEndianDefault,
     pos |-> 0, endian |-> ParsingEndianDefault, ret |-> Ok(<<>>)]

\* ------------------------------------------------------- the parser's code
\* Each operation is a function of the state it is called on and of `oc`,
\* whether the build checks integer overflow (it panics) or wraps.

\* BytesParser::parseable: length - cursor, as the wrapping build computes it.
parseable(len, cur) == WrapUsize(len - cur)

\* length - cursor underflows.
parseable_overflows(len, cur) == cur > len

\* &buffer[start..end] is in range; otherwise indexing panics in every build.
slice_in_range(buf, start, end) == start <= end /\ end <= Len(buf)

\* The match with its arms exchanged.
decode_swapped(en, slice) ==
    IF en = BE THEN from_le_bytes(slice) ELSE from_be_bytes(slice)

\* The match on self.endian of build_parse_type_fn!.
decode(en, slice) ==
    IF en = BE THEN from_be_bytes(slice) ELSE from_le_bytes(slice)

\* A decode that hands back the previous decode's value when the same type is
\* asked for twice in a row.
parse_type_cached(oc, ty, buf, len, cur, en) ==
    LET size == size_of(ty)
        start == cur
        end == WrapUsize(cur + size)
    IN  IF oc /\ parseable_overflows(len, cur) THEN Out(cur, Panic)
        ELSE IF parseable(len, cur) < size
        THEN Out(cur, NotEnoughBytesForTypeError(ty))
        ELSE IF oc /\ cur + size > USIZE_MAX THEN Out(cur, Panic)
        ELSE IF ~slice_in_range(buf, start, end) THEN Out(cur, Panic)
        ELSE IF last.op = "parse" /\ last.ty = ty /\ last.ret.tag = "Ok"
        THEN Out(end, last.ret)
        ELSE Out(end, Ok(decode(en, Slice(buf, start, end))))

\* A decode that returns the value without consuming its bytes.
parse_type_peeking(oc, ty, buf, len, cur, en) ==
    LET size == size_of(ty)
        start == cur
        end == WrapUsize(cur + size)
    IN  IF oc /\ parseable_overflows(len, cur) THEN Out(cur, Panic)
        ELSE IF parseable(len, cur) < size
        THEN Out(cur, NotEnoughBytesForTypeError(ty))
        ELSE IF oc /\ cur + size > USIZE_MAX THEN Out(cur, Panic)
        ELSE IF ~slice_in_range(buf, start, end) THEN Out(cur, Panic)
        ELSE Out(cur, Ok(decode(en, Slice(buf, start, end))))

\* build_parse_type_fn!: parse_i8 .. parse_f64.
parse_type(oc, ty, buf, len, cur, en) ==
    LET size == size_of(ty)
        start == cur
        end == WrapUsize(cur + size)
    IN  IF oc /\ parseable_overflows(len, cur) THEN Out(cur, Panic)
        ELSE IF parseable(len, cur) < size
        THEN Out(cur, NotEnoughBytesForTypeError(ty))
        ELSE IF oc /\ cur + size > USIZE_MAX THEN Out(cur, Panic)
        ELSE IF ~slice_in_range(buf, start, end) THEN Out(cur, Panic)
        ELSE Out(end, Ok(decode(en, Slice(buf, start, end))))

\* A parse_str_utf8 that advances the cursor before it validates the bytes.
parse_str_utf8_advancing(oc, size, buf, len, cur) ==
    LET start == cur
        end == WrapUsize(cur + size)
    IN  IF oc /\ parseable_overflows(len, cur) THEN Out(cur, Panic)
        ELSE IF parseable(len, cur) < size
        THEN Out(cur, NotEnoughBytesForStringError(size))
        ELSE IF oc /\ cur + size > USIZE_MAX THEN Out(cur, Panic)
        ELSE IF ~slice_in_range(buf, start, end) THEN Out(cur, Panic)
        ELSE LET slice == Slice(buf, start, end)
             IN  IF from_utf8_ok(slice)
                 THEN Out(end, Ok(slice))
                 ELSE Out(end, StringParseError(Utf8ValidUpTo(slice, 0)))

\* BytesParser::parse_str_utf8.
parse_str_utf8_fn(oc, size, buf, len, cur) ==
    LET start == cur
        end == WrapUsize(cur + size)
    IN  IF oc /\ parseable_overflows(len, cur) THEN Out(cur, Panic)
        ELSE IF parseable(len, cur) < size
        THEN Out(cur, NotEnoughBytesForStringError(size))
        ELSE IF oc /\ cur + size > USIZE_MAX THEN Out(cur, Panic)
        ELSE IF ~slice_in_range(buf, start, end) THEN Out(cur, Panic)
        ELSE LET slice == Slice(buf, start, end)
             IN  IF from_utf8_ok(slice)
                 THEN Out(end, Ok(slice))
                 ELSE Out(cur, StringParseError(Utf8ValidUpTo(slice, 0)))

\* A parse_char_u32 that puts the cursor back when the u32 is no char.
parse_char_u32_restoring(oc, buf, len, cur, en) ==
    LET r == parse_type(oc, "u32", buf, len, cur, en)
    IN  IF r.ret.tag # "Ok" THEN r
        ELSE IF char_from_u32_ok(r.ret.val)
        THEN Out(r.cursor, Ok(<<char_from_u32(r.ret.val)>>))
        ELSE Out(cur, InvalidU32ForCharError)

\* BytesParser::parse_char_u32: parse_u32()?, then char::from_u32.
parse_char_u32_fn(oc, buf, len, cur, en) ==
    LET r == parse_type(oc, "u32", buf, len, cur, en)
    IN  IF r.ret.tag # "Ok" THEN r
        ELSE IF char_from_u32_ok(r.ret.val)
        THEN Out(r.cursor, Ok(<<char_from_u32(r.ret.val)>>))
        ELSE Out(r.cursor, InvalidU32ForCharError)

\* A reset that leaves the cursor where it is.
reset_fn_idle(cur) == Out(cur, Ok(<<>>))

\* BytesParser::reset.
reset_fn(cur) == Out(0, Ok(<<>>))

\* BytesParser::move_forward.
move_forward_fn(oc, amount, len, cur) ==
    LET new_cursor == WrapUsize(cur + amount)
    IN  IF oc /\ cur + amount > USIZE_MAX THEN Out(cur, Panic)
        ELSE IF new_cursor >= len
        THEN Out(cur, CursorOutOfBoundError(AsIsize(new_cursor), len, cur))
        ELSE Out(new_cursor, Ok(<<>>))

\* BytesParser::move_backward.
move_backward_fn(oc, amount, len, cur) ==
    LET diff == AsIsize(cur) - AsIsize(amount)
        new_cursor == WrapIsize(diff)
    IN  IF oc /\ (diff > ISIZE_MAX \/ diff < ISIZE_MIN) THEN Out(cur, Panic)
        ELSE IF new_cursor < 0
        THEN Out(cur, CursorOutOfBoundError(new_cursor, len, cur))
        ELSE Out(new_cursor, Ok(<<>>))

\* A move_at that accepts a position equal to length.
move_at_inclusive(position, len, cur) ==
    IF position > len
    THEN Out(cur, CursorOutOfBoundError(AsIsize(position), len, cur))
    ELSE Out(position, Ok(<<>>))

\* BytesParser::move_at.
move_at_fn(position, len, cur) ==
    IF position >= len
    THEN Out(cur, CursorOutOfBoundError(AsIsize(position), len, cur))
    ELSE Out(position, Ok(<<>>))

\* A set_endian that drops its argument.
set_endian_ignored(e) == ParsingEndianDefault

\* BytesParser::set_endian: the endian it leaves.
set_endian_fn(e) == e

\* The introspection accessors, on the current state.
position == cursor

is_empty == length = 0

is_at_start == cursor = 0

is_at_end == cursor = length

\* A call as a value: the method, and its argument (ty for a scalar decode,
\* arg for a size, an amount or a position, to for set_endian).
Request(op, ty, arg, to) == [op |-> op, ty |-> ty, arg |-> arg, to |-> to]

MoveRequests ==
    {Request(op, "", a, BE) :
        op \in {"move_forward", "move_backward", "move_at"}, a \in Amounts}

ResetRequest == Request("reset", "", 0, BE)

EndianRequests == {Request("set_endian", "", 0, e) : e \in ParsingEndian}

\* impl BytesParser: the method a request names, on a parser's fields.
method(oc, req, buf, len, cur, en) ==
    CASE req.op = "parse" -> parse_type(oc, req.ty, buf, len, cur, en)
      [] req.op = "parse_str_utf8" -> parse_str_utf8_fn(oc, req.arg, buf, len, cur)
      [] req.op = "parse_char_u32" -> parse_char_u32_fn(oc, buf, len, cur, en)
      [] req.op = "reset" -> reset_fn(cur)
      [] req.op = "move_forward" -> move_forward_fn(oc, req.arg, len, cur)
      [] req.op = "move_backward" -> move_backward_fn(oc, req.arg, len, cur)
      [] req.op = "move_at" -> move_at_fn(req.arg, len, cur)
      [] OTHER -> Out(cur, Ok(<<>>))

\* The endian the method leaves: set_endian's argument, otherwise as it was.
endian_after(req, en) == IF req.op = "set_endian" THEN set_endian_fn(req.to) ELSE en

\* The first pass of decodes over a buffer: the calls made from the start, in
\* order, each with the endian it was made under and what it left; then
\* (phase "roam") any calls; then, after a reset (phase "again"), the n first
\* calls of the pass made once more.
NoPass == [phase |-> "first", first |-> <<>>, n |-> 0]

\* No second parser yet.
NoTwin == [on |-> FALSE, cursor |-> 0, endian |-> ParsingEndianDefault, called |-> FALSE]

\* ----------------------------------------------------------------- actions

\* impl From<&[u8]> for BytesParser.
Init ==
    /\ buffer \in Buffers
    /\ length = Len(buffer)
    /\ cursor = 0
    /\ endian = ParsingEndianDefault
    /\ last = NoCall
    /\ count = 0
    /\ pass = NoPass
    /\ twin = NoTwin

\* A panic unwinds the caller: no further call is made on the parser.
Alive == last.ret.tag # "Panic"

\* The model follows the cursor up to MaxBeyond past the buffer's end.
Followed(out) == out.cursor <= length + MaxBeyond

\* A call returns: the cursor and the call's record are written.
Does(op, ty, arg, out) ==
    /\ Followed(out)
    /\ cursor' = out.cursor
    /\ last' = Call(op, ty, arg, endian, out.ret)
    /\ UNCHANGED <<buffer, length, endian>>

Returns(op, ty, arg, out) ==
    /\ Does(op, ty, arg, out)
    /\ UNCHANGED <<count, pass, twin>>

parse_scalar ==
    /\ Alive
    /\ \E ty \in ScalarTypes, oc \in BOOLEAN :
          Returns("parse", ty, 0, parse_type(oc, ty, buffer, length, cursor, endian))

parse_str_utf8 ==
    /\ Alive
    /\ \E size \in StrSizes, oc \in BOOLEAN :
          Returns("parse_str_utf8", "", size,
                  parse_str_utf8_fn(oc, size, buffer, length, cursor))

parse_char_u32 ==
    /\ Alive
    /\ \E oc \in BOOLEAN :
          Returns("parse_char_u32", "", 0,
                  parse_char_u32_fn(oc, buffer, length, cursor, endian))

reset ==
    /\ Alive
    /\ Returns("reset", "", 0, reset_fn(cursor))

move_forward ==
    /\ Alive
    /\ \E amount \in Amounts, oc \in BOOLEAN :
          Returns("move_forward", "", amount, move_forward_fn(oc, amount, length, cursor))

move_backward ==
    /\ Alive
    /\ \E amount \in Amounts, oc \in BOOLEAN :
          Returns("move_backward", "", amount, move_backward_fn(oc, amount, length, cursor))

move_at ==
    /\ Alive
    /\ \E p \in Amounts :
          Returns("move_at", "", p, move_at_fn(p, length, cursor))

set_endian ==
    /\ Alive
    /\ \E e \in ParsingEndian :
          /\ endian' = set_endian_fn(e)
          /\ last' = Call("set_endian", "", 0, e, Ok(<<>>))
          /\ UNCHANGED <<buffer, length, cursor, count, pass, twin>>

Next ==
    \/ parse_scalar
    \/ parse_str_utf8
    \/ parse_char_u32
    \/ reset
    \/ move_forward
    \/ move_backward
    \/ move_at
    \/ set_endian

Spec == Init /\ [][Next]_vars

\* ------------------------------------------------- a run of decodes only
\* The parser used as its documentation describes it: built, then read front
\* to back with parse_* calls (set_endian allowed), never reset or moved.

\* A decode that returned Ok is counted.
counted(out) == count + (IF out.ret.tag = "Ok" THEN 1 ELSE 0)

counted_scalar ==
    /\ Alive
    /\ \E ty \in ScalarTypes, oc \in BOOLEAN :
          LET out == parse_type(oc, ty, buffer, length, cursor, endian)
          IN  /\ Does("parse", ty, 0, out)
              /\ count' = counted(out)
              /\ UNCHANGED <<pass, twin>>

counted_char ==
    /\ Alive
    /\ \E oc \in BOOLEAN :
          LET out == parse_char_u32_fn(oc, buffer, length, cursor, endian)
          IN  /\ Does("parse_char_u32", "", 0, out)
              /\ count' = counted(out)
              /\ UNCHANGED <<pass, twin>>

NextParse ==
    \/ counted_scalar
    \/ counted_char
    \/ parse_str_utf8
    \/ set_endian

SpecParse == Init /\ [][NextParse]_vars

\* ------------------------------------------------ a pass, and the pass again
\* tests::parse_moving_the_cursor_around, generalised: decode from the start,
\* move around, reset, decode the same again.

\* Decodes logged in a first pass.
MaxPass == 2

ReplayBuffers == {<<>>, <<195, 169, 0>>, TestChar}

\* The decodes of a pass: a scalar, a text and a character.
PassRequests ==
    {Request("parse", "u16", 0, BE), Request("parse_str_utf8", "", 2, BE),
     Request("parse_char_u32", "", 0, BE)}

\* The moves between the pass and the reset: one step forward, one step back,
\* a jump, and the amounts whose isize reading is negative (move_backward by
\* them takes the cursor up, past the end too).
RoamRequests ==
    {Request(op, "", a, BE) :
        op \in {"move_forward", "move_backward", "move_at"}, a \in {1, USIZE_MAX}}

\* A call the request names is made on the parser.
Performs(req, out) ==
    /\ Followed(out)
    /\ cursor' = out.cursor
    /\ endian' = endian_after(req, endian)
    /\ last' = Call(req.op, req.ty, req.arg,
                    IF req.op = "set_endian" THEN req.to ELSE endian, out.ret)
    /\ UNCHANGED <<buffer, length>>

Logged(req, out) == [req |-> req, endian |-> endian, out |-> out]

first_pass ==
    /\ Alive
    /\ pass.phase = "first"
    /\ Len(pass.first) < MaxPass
    /\ \E req \in PassRequests, oc \in BOOLEAN :
          LET out == method(oc, req, buffer, length, cursor, endian)
          IN  /\ Performs(req, out)
              /\ pass' = [pass EXCEPT !.first = Append(@, Logged(req, out))]
              /\ UNCHANGED <<count, twin>>

roam ==
    /\ Alive
    /\ pass.phase \in {"first", "roam"}
    /\ \E req \in RoamRequests, oc \in BOOLEAN :
          /\ Performs(req, method(oc, req, buffer, length, cursor, endian))
          /\ pass' = [pass EXCEPT !.phase = "roam"]
          /\ UNCHANGED <<count, twin>>

reset_then_again ==
    /\ Alive
    /\ \E oc \in BOOLEAN :
          Performs(ResetRequest, method(oc, ResetRequest, buffer, length, cursor, endian))
    /\ pass' = [pass EXCEPT !.phase = "again", !.n = 0]
    /\ UNCHANGED <<count, twin>>

again ==
    /\ Alive
    /\ pass.phase = "again"
    /\ pass.n < Len(pass.first)
    /\ endian = pass.first[pass.n + 1].endian
    /\ \E oc \in BOOLEAN :
          Performs(pass.first[pass.n + 1].req,
                   method(oc, pass.first[pass.n + 1].req, buffer, length, cursor, endian))
    /\ pass' = [pass EXCEPT !.n = @ + 1]
    /\ UNCHANGED <<count, twin>>

InitReplay == Init /\ buffer \in ReplayBuffers

NextReplay ==
    \/ first_pass
    \/ roam
    \/ reset_then_again
    \/ again
    \/ set_endian

SpecReplay == InitReplay /\ [][NextReplay]_vars

\* ------------------------------------------- two parsers over the same bytes
\* BytesParser is Copy and borrows its buffer: a second parser comes from
\* copying the first or from building another over the same slice. `twin` holds
\* the second one's fields; twin.called tells on which of the two the last
\* call was made.

TwoBuffers == {<<>>, <<195, 169, 0>>, TestChar}

\* The calls made on either parser.
TwoRequests == PassRequests \cup MoveRequests \cup {ResetRequest} \cup EndianRequests

\* A call on one parser whose cursor is the other's too.
untouched_shared_cursor(r, out) == [r EXCEPT !.cursor = out.cursor]

\* The fields of the parser a call was not made on: each parser holds its
\* cursor and endian by value, and a method writes those of self.
untouched(r, out) == r

\* let second = first;
copy ==
    /\ Alive
    /\ ~twin.on
    /\ twin' = [on |-> TRUE, cursor |-> cursor, endian |-> endian, called |-> FALSE]
    /\ UNCHANGED <<buffer, length, cursor, endian, last, count, pass>>

\* let second = BytesParser::from(buffer);
from_same ==
    /\ Alive
    /\ ~twin.on
    /\ twin' = [on |-> TRUE, cursor |-> 0, endian |-> ParsingEndianDefault,
                called |-> FALSE]
    /\ UNCHANGED <<buffer, length, cursor, endian, last, count, pass>>

call_first ==
    /\ Alive
    /\ \E req \in TwoRequests, oc \in BOOLEAN :
          LET out == method(oc, req, buffer, length, cursor, endian)
              other == untouched(twin, out)
          IN  /\ Performs(req, out)
              /\ twin' = [other EXCEPT !.called = FALSE]
              /\ UNCHANGED <<count, pass>>

call_second ==
    /\ Alive
    /\ twin.on
    /\ \E req \in TwoRequests, oc \in BOOLEAN :
          LET out == method(oc, req, buffer, length, twin.cursor, twin.endian)
              other == untouched([cursor |-> cursor, endian |-> endian], out)
          IN  /\ Followed(out)
              /\ twin' = [on |-> TRUE, cursor |-> out.cursor,
                          endian |-> endian_after(req, twin.endian), called |-> TRUE]
              /\ last' = [op |-> req.op, ty |-> req.ty, arg |-> req.arg,
                          to |-> IF req.op = "set_endian" THEN req.to ELSE twin.endian,
                          pos |-> twin.cursor, endian |-> twin.endian, ret |-> out.ret]
              /\ cursor' = other.cursor
              /\ endian' = other.endian
              /\ UNCHANGED <<buffer, length, count, pass>>

InitTwo == Init /\ buffer \in TwoBuffers

NextTwo ==
    \/ copy
    \/ from_same
    \/ call_first
    \/ call_second

SpecTwo == InitTwo /\ [][NextTwo]_vars

\* ------------------------------------------------------------------ claims

\* The bytes the last call found at the cursor, `size` of them.
BytesAt(size) == Slice(buffer, last.pos, last.pos + size)

\* The last call returned Ok / an error of the given variant.
LastOk(op) == last.op = op /\ last.ret.tag = "Ok"

LastErr(op, err) == last.op = op /\ last.ret.tag = "Err" /\ last.ret.err = err

\* C1: in every reachable state 0 <= position() <= length() and
\* parseable() == length() - position().
C1_CursorWithinLength ==
    Alive =>
        /\ 0 <= position /\ position <= length
        /\ ~parseable_overflows(length, cursor)
        /\ parseable(length, cursor) = length - position

\* C2: move_forward(amount) succeeds iff position + amount < length, move_at(p)
\* succeeds iff p < length, on success the cursor is the target, a target
\* equal to length() is rejected with CursorOutOfBound, and a scalar decode
\* that consumes the last bytes succeeds and leaves position() == length().
C2_MoveBoundary ==
    /\ last.op = "move_forward" =>
          /\ (last.ret.tag = "Ok") <=> (last.pos + last.arg < length)
          /\ last.ret.tag = "Ok" => cursor = last.pos + last.arg
          /\ last.pos + last.arg = length =>
                last.ret.tag = "Err" /\ last.ret.err = "CursorOutOfBoundError"
    /\ last.op = "move_at" =>
          /\ (last.ret.tag = "Ok") <=> (last.arg < length)
          /\ last.ret.tag = "Ok" => cursor = last.arg
          /\ last.arg = length =>
                last.ret.tag = "Err" /\ last.ret.err = "CursorOutOfBoundError"
    /\ (last.op = "parse" /\ last.pos + size_of(last.ty) = length) =>
          last.ret.tag = "Ok" /\ position = length /\ is_at_end

\* C3: a call that fails with NotEnoughBytesForType, NotEnoughBytesForString
\* or StringDecode leaves position() and endian() as they were.
C3_FailureLeavesCursor ==
    (/\ last.ret.tag = "Err"
     /\ last.ret.err \in {"NotEnoughBytesForTypeError",
                          "NotEnoughBytesForStringError", "StringParseError"})
        => cursor = last.pos /\ endian = last.endian

\* Text decoding met invalid UTF-8 after the cursor had moved off the start.
C3_Witness ==
    /\ LastErr("parse_str_utf8", "StringParseError")
    /\ last.pos > 0
    /\ cursor = last.pos

\* C4: in every reachable state a scalar decode of width size succeeds iff
\* parseable() >= size; on success it returns the decoding of
\* buffer[position .. position+size] and advances the cursor by size; otherwise
\* it fails with NotEnoughBytesForType naming the type.
C4_ScalarDecode ==
    last.op = "parse" =>
        LET size == size_of(last.ty)
        IN  IF length - last.pos >= size
            THEN /\ last.ret.tag = "Ok"
                 /\ last.ret.val = decode(last.endian, BytesAt(size))
                 /\ cursor = last.pos + size
                 /\ length - cursor = (length - last.pos) - size
            ELSE /\ last.ret = NotEnoughBytesForTypeError(last.ty)
                 /\ cursor = last.pos

\* The number the bytes s denote, first byte most significant / least
\* significant, and its two's complement reading at width Len(s).
RECURSIVE ValueMSF(_)
ValueMSF(s) ==
    IF Len(s) = 0 THEN 0 ELSE 256 * ValueMSF(SubSeq(s, 1, Len(s) - 1)) + s[Len(s)]

RECURSIVE ValueLSF(_)
ValueLSF(s) == IF Len(s) = 0 THEN 0 ELSE s[1] + 256 * ValueLSF(Tail(s))

Signed(u, size) ==
    LET half == Pow2(8 * size - 2)
    IN  IF u >= 2 * half THEN ((u - half) - half) - 2 * half ELSE u

\* C5: a successful scalar decode reads the bytes at the cursor with the first
\* byte most significant under BE and least significant under LE; decoding b
\* under LE is decoding reverse(b) under BE; a one-byte decode does not depend
\* on the endianness.
C5_Endianness ==
    LastOk("parse") =>
        LET ty == last.ty
            size == size_of(ty)
            s == BytesAt(size)
            v == last.ret.val
            top == IF last.endian = BE THEN s[1] ELSE s[size]
            u == IF last.endian = BE THEN ValueMSF(s) ELSE ValueLSF(s)
        IN  /\ Len(v) = size
            /\ last.endian = BE => \A i \in 1..size : v[i] = s[i]
            /\ last.endian = LE => \A i \in 1..size : v[i] = s[size + 1 - i]
            /\ last.endian = LE => v = decode(BE, Reverse(s))
            /\ size = 1 => v = decode(BE, s) /\ v = decode(LE, s)
            /\ (ty \in {"u8", "u16"} \/ (ty \in {"u32", "i32"} /\ top < 128)) =>
                  IntOf(ty, v) = u
            /\ ty \in {"i8", "i16"} => IntOf(ty, v) = Signed(u, size)

\* tests::parse_unsigned_scalars_using_little_endian: 0x34 0x12 read as a
\* little-endian u16 is 0x1234.
C5_Witness ==
    /\ LastOk("parse")
    /\ last.ty = "u16"
    /\ last.endian = LE
    /\ BytesAt(2) = <<52, 18>>
    /\ IntOf("u16", last.ret.val) = 4660

\* Values the round trip is tried on: integers (taken at every integer type
\* of at most 32 bits whose range holds them) and bit patterns (a float's
\* included: f32::MIN, f64::MAX, an f32 NaN and -infinity).
IntSamples ==
    {0, 1, 18, 127, 128, 255, 256, 4660, 13330, 32767, 32768, 43459, 50089, 65535,
     305419896, 2018915346, -1, -61, -87, -128, -129, -15447, -22077, -32768, -32769}

InRange(ty, v) ==
    CASE ty = "u8" -> 0 <= v /\ v <= 255
      [] ty = "i8" -> -128 <= v /\ v <= 127
      [] ty = "u16" -> 0 <= v /\ v <= 65535
      [] ty = "i16" -> -32768 <= v /\ v <= 32767
      [] ty = "u32" -> 0 <= v
      [] ty = "i32" -> TRUE
      [] OTHER -> FALSE

BitSamples(size) ==
    {Slice(TestScalarsBE, i, i + size) : i \in 0..(Len(TestScalarsBE) - size)}
        \cup {p \in {<<127, 192, 0, 0>>, <<255, 128, 0, 0>>} : Len(p) = size}

\* C6: a value encoded in its type's width under E and decoded as that type by
\* a reader whose endian is E comes back identical, with the cursor advanced by
\* the width.
C6_RoundTrip ==
    LastOk("parse") =>
        LET ty == last.ty
            size == size_of(ty)
            s == BytesAt(size)
        IN  /\ \A v \in IntSamples :
                  (InRange(ty, v) /\ s = encode(last.endian, BitsOf(v, size))) =>
                      IntOf(ty, last.ret.val) = v /\ cursor = last.pos + size
            /\ \A p \in BitSamples(size) :
                  s = encode(last.endian, p) =>
                      last.ret.val = p /\ cursor = last.pos + size

\* -22077 as a little-endian i16 is 0xC3 0xA9; it is read back.
C6_Witness ==
    /\ LastOk("parse")
    /\ last.ty = "i16"
    /\ last.endian = LE
    /\ BytesAt(2) = encode(LE, BitsOf(-22077, 2))
    /\ IntOf("i16", last.ret.val) = -22077
    /\ cursor = last.pos + 2

\* C7: a call that returns an error leaves the cursor where it was, except
\* parse_char_u32 failing with InvalidU32ForCharError, which has advanced it by
\* exactly 4.
C7_CursorOnFailure ==
    last.ret.tag = "Err" =>
        IF last.op = "parse_char_u32" /\ last.ret.err = "InvalidU32ForCharError"
        THEN cursor = last.pos + 4
        ELSE cursor = last.pos

C7_Witness ==
    /\ LastErr("parse_char_u32", "InvalidU32ForCharError")
    /\ cursor = last.pos + 4

\* Code points the same-character check is tried on: U+0000, 'A', U+C3A9,
\* U+D7FF, U+E000, U+1F980, U+10FFFF.
CodePointSamples == {0, 65, 50089, 55295, 57344, 129408, 1114111}

\* C8: with at least 4 bytes left, parse_char_u32 returns the character of the
\* u32 read under the active endianness iff that value is at most 0x10FFFF and
\* no surrogate, and fails with InvalidU32ForCharError otherwise; a code point
\* encoded under E and read under E is that character.
C8_CharDecode ==
    (last.op = "parse_char_u32" /\ length - last.pos >= 4) =>
        LET s == BytesAt(4)
            m == IF last.endian = BE THEN s ELSE Reverse(s)
            valid == /\ m[1] = 0
                     /\ m[2] <= 16
                     /\ ~(m[2] = 0 /\ 216 <= m[3] /\ m[3] <= 223)
            cp == m[2] * 65536 + m[3] * 256 + m[4]
        IN  /\ IF valid THEN last.ret = Ok(<<cp>>)
                        ELSE last.ret = InvalidU32ForCharError
            /\ \A c \in CodePointSamples :
                  s = encode(last.endian, BitsOf(c, 4)) => last.ret = Ok(<<c>>)

\* tests::parse_char: the crab, encoded little-endian, read under LE.
C8_Witness ==
    /\ buffer = TestChar
    /\ LastOk("parse_char_u32")
    /\ last.endian = LE
    /\ last.pos = 4
    /\ last.ret.val = <<129408>>

\* C9: parse_str_utf8(size) fails with NotEnoughBytesForString(size) iff
\* parseable() < size; otherwise with StringDecode iff the size bytes at the
\* cursor are not well-formed UTF-8; otherwise it returns those bytes as text
\* and advances the cursor by size (to the end when size is all that was left).
C9_TextDecode ==
    last.op = "parse_str_utf8" =>
        LET size == last.arg
        IN  IF length - last.pos < size
            THEN last.ret = NotEnoughBytesForStringError(size) /\ cursor = last.pos
            ELSE IF ~from_utf8_ok(BytesAt(size))
            THEN /\ last.ret.tag = "Err"
                 /\ last.ret.err = "StringParseError"
                 /\ cursor = last.pos
            ELSE /\ last.ret = Ok(BytesAt(size))
                 /\ cursor = last.pos + size
                 /\ size = length - last.pos => is_at_end

\* C10: a new reader's endian is BE; set_endian(e) leaves endian() == e and
\* changes neither position() nor length(); no other operation changes
\* endian(); the text parse_str_utf8 returns is the bytes in buffer order
\* whatever the endian.
C10_EndianIsConfiguration ==
    /\ length = Len(buffer)
    /\ last.op = "from" => endian = BE
    /\ last.op = "set_endian" => endian = last.to /\ cursor = last.pos
    /\ last.op \notin {"from", "set_endian"} => endian = last.endian
    /\ LastOk("parse_str_utf8") => last.ret.val = BytesAt(last.arg)

\* set_endian(LE) on a big-endian reader whose cursor has moved.
C10_Witness ==
    /\ last.op = "set_endian"
    /\ last.to = LE
    /\ last.endian = BE
    /\ endian = LE
    /\ cursor > 0
    /\ cursor = last.pos

\* The last call was a cursor movement that can fail.
LastMove == last.op \in {"move_forward", "move_backward", "move_at"}

\* The position the last movement aimed at, as a number.
Target ==
    CASE last.op = "move_forward" -> last.pos + last.arg
      [] last.op = "move_backward" -> last.pos - last.arg
      [] OTHER -> last.arg

\* C11: a failing move_forward, move_backward or move_at returns
\* CursorOutOfBound carrying (attempted target, length(), position() before
\* the call) and leaves the cursor where it was.
C11_MoveErrorPayload ==
    (LastMove /\ last.ret.tag = "Err") =>
        /\ last.ret = CursorOutOfBoundError(Target, length, last.pos)
        /\ cursor = last.pos

C13_NoPanic == last.ret.tag # "Panic"

\* C16: length() never changes, is_empty() <=> length() == 0, is_at_start() <=>
\* position() == 0 (and then parseable() == length()), is_at_end() <=>
\* position() == length() <=> parseable() == 0, in every reachable state, and
\* a new reader has position() == 0; parseable() returns in either build.
C16_Accessors ==
    /\ length = Len(buffer)
    /\ is_empty <=> length = 0
    /\ last.op = "from" => position = 0
    /\ is_at_start <=> position = 0
    /\ is_at_end <=> position = length
    /\ \A oc \in BOOLEAN : ~(oc /\ parseable_overflows(length, cursor))
    /\ is_at_start => parseable(length, cursor) = length
    /\ is_at_end <=> parseable(length, cursor) = 0

\* C17: move_backward(amount) fails with CursorOutOfBound iff amount >
\* position, otherwise sets the cursor to position - amount; it never moves
\* the cursor to a larger offset.
C17_MoveBackward ==
    last.op = "move_backward" =>
        /\ IF last.arg > last.pos
           THEN /\ last.ret.tag = "Err"
                /\ last.ret.err = "CursorOutOfBoundError"
                /\ cursor = last.pos
           ELSE last.ret.tag = "Ok" /\ cursor = last.pos - last.arg
        /\ cursor <= last.pos

\* C20: on an empty buffer every move_forward and move_at fails with
\* CursorOutOfBound, every scalar and character decode fails, and
\* position() == 0 after any sequence of operations.
C20_EmptyBuffer ==
    length = 0 =>
        /\ position = 0 /\ is_at_start /\ is_at_end
        /\ last.op \in {"move_forward", "move_at"} =>
              last.ret.tag = "Err" /\ last.ret.err = "CursorOutOfBoundError"
        /\ last.op \in {"parse", "parse_char_u32"} => last.ret.tag = "Err"

\* The u32 at 0-based offset p read under endian en, as a char: the code point,
\* or -1 if the value is no Unicode scalar value.
CharAt(p, en) ==
    LET s == Slice(buffer, p, p + 4)
        m == IF en = BE THEN s ELSE Reverse(s)
    IN  IF m[1] = 0 /\ m[2] <= 16 /\ ~(m[2] = 0 /\ 216 <= m[3] /\ m[3] <= 223)
        THEN m[2] * 65536 + m[3] * 256 + m[4]
        ELSE -1

DecodeOps == {"parse", "parse_str_utf8", "parse_char_u32"}

\* What a decode (op, ty, size) returns and where it leaves the cursor, from
\* the buffer, the position p and the endian en alone, in the build that
\* checks overflow (oc) or wraps. Past the end (p > length) the call panics,
\* except that the wrapping build's text decode reports NotEnoughBytesForString
\* when the wrapped length - p is below size.
DecodeAt(oc, op, ty, size, p, en) ==
    IF p > length
    THEN IF ~oc /\ op = "parse_str_utf8" /\ WrapUsize(length - p) < size
         THEN Out(p, NotEnoughBytesForStringError(size))
         ELSE Out(p, Panic)
    ELSE CASE op = "parse" ->
                 LET s == Slice(buffer, p, p + size_of(ty))
                 IN  IF length - p < size_of(ty)
                     THEN Out(p, NotEnoughBytesForTypeError(ty))
                     ELSE Out(p + size_of(ty), Ok(IF en = BE THEN s ELSE Reverse(s)))
           [] op = "parse_char_u32" ->
                 IF length - p < 4 THEN Out(p, NotEnoughBytesForTypeError("u32"))
                 ELSE IF CharAt(p, en) >= 0 THEN Out(p + 4, Ok(<<CharAt(p, en)>>))
                 ELSE Out(p + 4, InvalidU32ForCharError)
           [] OTHER ->
                 LET s == Slice(buffer, p, p + size)
                 IN  IF length - p < size
                     THEN Out(p, NotEnoughBytesForStringError(size))
                     ELSE IF from_utf8_ok(s) THEN Out(p + size, Ok(s))
                     ELSE Out(p, StringParseError(Utf8ValidUpTo(s, 0)))

\* The last decode's outcome is the one its buffer, position, endian and
\* request determine.
DecodeDetermined ==
    last.op \in DecodeOps =>
        \E oc \in BOOLEAN :
            Out(cursor, last.ret) = DecodeAt(oc, last.op, last.ty, last.arg, last.pos, last.endian)

\* A decode made right after a successful move_at(p) is made at p.
DecodeAfterMoveAt ==
    (LastOk("move_at") /\ last'.op \in DecodeOps) =>
        /\ last'.pos = last.arg
        /\ last'.endian = endian
        /\ \E oc \in BOOLEAN :
              Out(cursor', last'.ret) = DecodeAt(oc, last'.op, last'.ty, last'.arg, last.arg, endian)

\* move_backward(n) right after a successful move_forward(n) succeeds and puts
\* the cursor back where it was before the two.
BackwardUndoesForward ==
    (LastOk("move_forward") /\ last'.op = "move_backward" /\ last'.arg = last.arg) =>
        last'.ret.tag = "Ok" /\ cursor' = last.pos

\* C18: a decode's outcome and resulting position are a function of the
\* buffer, the position, the endian and the requested type only, whatever
\* sequence of operations led there; a decode after a successful move_at(p)
\* reads the bytes starting at p, and move_backward(n) after a successful
\* move_forward(n) restores the position a following decode reads from.
C18_DecodeIsFunction ==
    /\ []DecodeDetermined
    /\ [][DecodeAfterMoveAt]_vars
    /\ [][BackwardUndoesForward]_vars

\* tests::parse_moving_the_cursor_around: the cursor was moved off the start
\* and a u16 decoded there reads the two bytes at that position.
C18_Witness ==
    /\ LastOk("parse")
    /\ last.ty = "u16"
    /\ last.pos = 1
    /\ buffer = <<0, 195, 169>>
    /\ last.endian = LE
    /\ last.ret.val = <<169, 195>>
    /\ cursor = 3

\* C19: in a run of parse operations only, position() never decreases and
\* strictly increases on every successful scalar or character decode; the
\* successful decodes number at most length(), the cursor stays within
\* 0..length(), and once it is at length() every further scalar decode fails
\* with NotEnoughBytesForType.
C19_SequentialProgress ==
    /\ [][cursor' >= cursor]_vars
    /\ [][count' > count => cursor' > cursor]_vars
    /\ [][(last'.op \in {"parse", "parse_char_u32"} /\ last'.ret.tag = "Ok"
            /\ last' # last) => count' = count + 1 /\ cursor' > cursor]_vars
    /\ [](0 <= cursor /\ cursor <= length /\ count <= cursor /\ count <= length)
    /\ [][(cursor = length /\ last'.op = "parse" /\ last' # last) =>
            last'.ret = NotEnoughBytesForTypeError(last'.ty) /\ cursor' = length]_vars
    /\ [][(count = length) => (count' = length /\ cursor' = length)]_vars

\* Three one-byte decodes used up a three-byte buffer and the next scalar
\* decode was refused.
C19_Witness ==
    /\ length = 3
    /\ count = length
    /\ cursor = length
    /\ LastErr("parse", "NotEnoughBytesForTypeError")

\* C14: reset() never fails and from any reachable state sets position() to 0
\* (is_at_start()), leaving length() and endian() as they were; the decodes of
\* a first pass, made again after a reset under the same endianness, return
\* the same values and leave the same positions.
C14_ResetReplays ==
    /\ [](last.op = "reset" =>
            /\ last.ret = Ok(<<>>)
            /\ position = 0 /\ is_at_start
            /\ endian = last.endian)
    /\ [][length' = length /\ buffer' = buffer]_vars
    /\ [](pass.phase = "again" /\ pass.n = 0 => position = 0)
    /\ [][pass'.n > pass.n =>
            Out(cursor', last'.ret) = pass.first[pass'.n].out]_vars

\* Two decodes that returned values were made, the cursor was taken
\* elsewhere and reset, and both were made again.
C14_Witness ==
    /\ pass.phase = "again"
    /\ pass.n = 2
    /\ \A i \in 1..2 : pass.first[i].out.ret.tag = "Ok"
    /\ pass.first[1].endian # pass.first[2].endian
    /\ Out(cursor, last.ret) = pass.first[2].out
    /\ buffer = TestChar

\* The parser the last call was made on: its position and endian now.
CalledNow ==
    IF twin.called THEN [cursor |-> twin.cursor, endian |-> twin.endian]
    ELSE [cursor |-> cursor, endian |-> endian]

\* C15: two parsers over the same bytes (one a copy of the other, or built
\* from the same slice) have independent cursor and endian: a call on one
\* leaves the other's position() and endian() as they were, a decode on either
\* returns what its own position and endian determine however the calls on
\* the two are interleaved, and the bytes are never modified.
C15_IndependentReaders ==
    /\ [][buffer' = buffer /\ length' = length]_vars
    /\ [][(twin.on /\ ~twin'.called) =>
            (twin'.cursor = twin.cursor /\ twin'.endian = twin.endian)]_vars
    /\ [][twin'.called =>
            (/\ cursor' = cursor /\ endian' = endian
             /\ (last' # last => last'.pos = twin.cursor /\ last'.endian = twin.endian))]_vars
    /\ [][(~twin'.called /\ last' # last) =>
            (last'.pos = cursor /\ last'.endian = endian)]_vars
    /\ [](last.op \in DecodeOps =>
            \E oc \in BOOLEAN :
                Out(CalledNow.cursor, last.ret) =
                    DecodeAt(oc, last.op, last.ty, last.arg, last.pos, last.endian))

\* The second parser decoded a little-endian u16 at its position 1 while the
\* first stood at position 4 with the default endian.
C15_Witness ==
    /\ twin.on /\ twin.called
    /\ buffer = TestChar
    /\ cursor = 4 /\ endian = BE
    /\ LastOk("parse") /\ last.ty = "u16"
    /\ last.pos = 1 /\ last.endian = LE
    /\ last.ret.val = <<249, 1>>
    /\ twin.cursor = 3 /\ twin.endian = LE

MoveOps == {"reset", "move_forward", "move_backward", "move_at"}

\* C21: on a non-empty buffer a call that takes position() from below
\* length() to length() is a successful scalar, character or text decode,
\* never a reset or a move_*.
C21_EndOnlyByParsing ==
    (length > 0 /\ last.pos < length /\ position = length) =>
        /\ last.op \notin MoveOps
        /\ last.op \in DecodeOps /\ last.ret.tag = "Ok"

\* C22: with fewer than 4 bytes left parse_char_u32 fails with
\* NotEnoughBytesForType naming "u32" and leaves the cursor; a failing
\* parse_char_u32 moves the cursor only when the error is InvalidU32ForChar,
\* and then by exactly 4.
C22_CharShortBuffer ==
    last.op = "parse_char_u32" =>
        /\ length - last.pos < 4 =>
              last.ret = NotEnoughBytesForTypeError("u32") /\ cursor = last.pos
        /\ (last.ret.tag # "Ok" /\ cursor # last.pos) =>
              last.ret = InvalidU32ForCharError /\ cursor = last.pos + 4

====
